---- MODULE Spec2Model ----
(***************************************************************************)
(* Screenshot-Holmes: the screenshot renaming batch of app.py              *)
(* (process_screenshots, add_metadata, is_screenshot, write_to_csv) and    *)
(* the tile/token estimator of utils/CountPngs.py.                         *)
(*                                                                         *)
(* Strings that the code inspects character by character (file names,      *)
(* generated names) are sequences of Unicode code points, so that          *)
(* lower(), re.sub, endswith, "in" and f"{new_name}.png" are computed.     *)
(* Descriptions are opaque strings: the code only passes them on.          *)
(***************************************************************************)
EXTENDS Integers, Sequences, FiniteSets, TLC

VARIABLES
    folder,           \* the directory: name of each file -> its contents
    listing,          \* the list os.listdir returned for the running batch
    idx,              \* position of the for loop in listing (1-based)
    pc,               \* where process_screenshots / main stands
    content,          \* local `content` of the current candidate
    new_name,         \* local `new_name` of the current candidate
    processed_files,  \* the list process_screenshots builds and returns
    csv_rows,         \* rows of the CSV file of the running batch
    calls,            \* per listing index: the stages run for it, in order
    failed,           \* per listing index: the stages that failed
    tagged,           \* per listing index: tag the file carried when picked
    folder0,          \* the directory as it was when the batch started
    cls_in,           \* argument of is_screenshot (classifier check)
    cls_out,          \* <<>> before the call, <<result>> after it
    est_in,           \* one element of screenshot_data (estimator check)
    est_out           \* <<>>, then <<the fields the estimator added>>

vars == <<folder, listing, idx, pc, content, new_name, processed_files,
          csv_rows, calls, failed, tagged, folder0,
          cls_in, cls_out, est_in, est_out>>

pipeVars == <<folder, listing, idx, pc, content, new_name, processed_files,
              csv_rows, calls, failed, tagged, folder0>>
clsVars == <<cls_in, cls_out>>
estVars == <<est_in, est_out>>

(***************************************************************************)
(* Bounds of the model.                                                    *)
(***************************************************************************)
MaxChunks == 3
MaxTilesPerSide == 4

(***************************************************************************)
(* Strings.                                                                *)
(***************************************************************************)
\* A character is its Unicode code point; a string is a sequence of them.

\* the characters matched by \s in a str pattern (line 143): the 29 code
\* points for which re.fullmatch(r'\s', c) succeeds
Whitespace ==
    (9..13) \cup (28..32) \cup {133, 160, 5760} \cup (8192..8202)
        \cup {8232, 8233, 8239, 8287, 12288}

\* str.lower() of a single character, for the characters whose lower case is
\* one other character: <<first, last, step, offset>> maps first, first+step,
\* ..., last to themselves plus offset (Unicode 14.0, the database of the
\* interpreter; U+03A3 and U+0130 are treated apart below)
LowerRanges ==
    {
      <<65,90,1,32>>, <<192,214,1,32>>, <<216,222,1,32>>, <<256,302,2,1>>,
      <<306,310,2,1>>, <<313,327,2,1>>, <<330,374,2,1>>, <<376,376,1,-121>>,
      <<377,381,2,1>>, <<385,385,1,210>>, <<386,388,2,1>>, <<390,390,1,206>>,
      <<391,391,1,1>>, <<393,394,1,205>>, <<395,395,1,1>>, <<398,398,1,79>>,
      <<399,399,1,202>>, <<400,400,1,203>>, <<401,401,1,1>>, <<403,403,1,205>>,
      <<404,404,1,207>>, <<406,406,1,211>>, <<407,407,1,209>>, <<408,408,1,1>>,
      <<412,412,1,211>>, <<413,413,1,213>>, <<415,415,1,214>>, <<416,420,2,1>>,
      <<422,422,1,218>>, <<423,423,1,1>>, <<425,425,1,218>>, <<428,428,1,1>>,
      <<430,430,1,218>>, <<431,431,1,1>>, <<433,434,1,217>>, <<435,437,2,1>>,
      <<439,439,1,219>>, <<440,440,1,1>>, <<444,444,1,1>>, <<452,452,1,2>>,
      <<453,453,1,1>>, <<455,455,1,2>>, <<456,456,1,1>>, <<458,458,1,2>>,
      <<459,475,2,1>>, <<478,494,2,1>>, <<497,497,1,2>>, <<498,500,2,1>>,
      <<502,502,1,-97>>, <<503,503,1,-56>>, <<504,542,2,1>>, <<544,544,1,-130>>,
      <<546,562,2,1>>, <<570,570,1,10795>>, <<571,571,1,1>>, <<573,573,1,-163>>,
      <<574,574,1,10792>>, <<577,577,1,1>>, <<579,579,1,-195>>, <<580,580,1,69>>,
      <<581,581,1,71>>, <<582,590,2,1>>, <<880,882,2,1>>, <<886,886,1,1>>,
      <<895,895,1,116>>, <<902,902,1,38>>, <<904,906,1,37>>, <<908,908,1,64>>,
      <<910,911,1,63>>, <<913,929,1,32>>, <<931,939,1,32>>, <<975,975,1,8>>,
      <<984,1006,2,1>>, <<1012,1012,1,-60>>, <<1015,1015,1,1>>, <<1017,1017,1,-7>>,
      <<1018,1018,1,1>>, <<1021,1023,1,-130>>, <<1024,1039,1,80>>, <<1040,1071,1,32>>,
      <<1120,1152,2,1>>, <<1162,1214,2,1>>, <<1216,1216,1,15>>, <<1217,1229,2,1>>,
      <<1232,1326,2,1>>, <<1329,1366,1,48>>, <<4256,4293,1,7264>>, <<4295,4295,1,7264>>,
      <<4301,4301,1,7264>>, <<5024,5103,1,38864>>, <<5104,5109,1,8>>, <<7312,7354,1,-3008>>,
      <<7357,7359,1,-3008>>, <<7680,7828,2,1>>, <<7838,7838,1,-7615>>, <<7840,7934,2,1>>,
      <<7944,7951,1,-8>>, <<7960,7965,1,-8>>, <<7976,7983,1,-8>>, <<7992,7999,1,-8>>,
      <<8008,8013,1,-8>>, <<8025,8031,2,-8>>, <<8040,8047,1,-8>>, <<8072,8079,1,-8>>,
      <<8088,8095,1,-8>>, <<8104,8111,1,-8>>, <<8120,8121,1,-8>>, <<8122,8123,1,-74>>,
      <<8124,8124,1,-9>>, <<8136,8139,1,-86>>, <<8140,8140,1,-9>>, <<8152,8153,1,-8>>,
      <<8154,8155,1,-100>>, <<8168,8169,1,-8>>, <<8170,8171,1,-112>>, <<8172,8172,1,-7>>,
      <<8184,8185,1,-128>>, <<8186,8187,1,-126>>, <<8188,8188,1,-9>>, <<8486,8486,1,-7517>>,
      <<8490,8490,1,-8383>>, <<8491,8491,1,-8262>>, <<8498,8498,1,28>>, <<8544,8559,1,16>>,
      <<8579,8579,1,1>>, <<9398,9423,1,26>>, <<11264,11311,1,48>>, <<11360,11360,1,1>>,
      <<11362,11362,1,-10743>>, <<11363,11363,1,-3814>>, <<11364,11364,1,-10727>>, <<11367,11371,2,1>>,
      <<11373,11373,1,-10780>>, <<11374,11374,1,-10749>>, <<11375,11375,1,-10783>>, <<11376,11376,1,-10782>>,
      <<11378,11378,1,1>>, <<11381,11381,1,1>>, <<11390,11391,1,-10815>>, <<11392,11490,2,1>>,
      <<11499,11501,2,1>>, <<11506,11506,1,1>>, <<42560,42604,2,1>>, <<42624,42650,2,1>>,
      <<42786,42798,2,1>>, <<42802,42862,2,1>>, <<42873,42875,2,1>>, <<42877,42877,1,-35332>>,
      <<42878,42886,2,1>>, <<42891,42891,1,1>>, <<42893,42893,1,-42280>>, <<42896,42898,2,1>>,
      <<42902,42920,2,1>>, <<42922,42922,1,-42308>>, <<42923,42923,1,-42319>>, <<42924,42924,1,-42315>>,
      <<42925,42925,1,-42305>>, <<42926,42926,1,-42308>>, <<42928,42928,1,-42258>>, <<42929,42929,1,-42282>>,
      <<42930,42930,1,-42261>>, <<42931,42931,1,928>>, <<42932,42946,2,1>>, <<42948,42948,1,-48>>,
      <<42949,42949,1,-42307>>, <<42950,42950,1,-35384>>, <<42951,42953,2,1>>, <<42960,42960,1,1>>,
      <<42966,42968,2,1>>, <<42997,42997,1,1>>, <<65313,65338,1,32>>, <<66560,66599,1,40>>,
      <<66736,66771,1,40>>, <<66928,66938,1,39>>, <<66940,66954,1,39>>, <<66956,66962,1,39>>,
      <<66964,66965,1,39>>, <<68736,68786,1,64>>, <<71840,71871,1,32>>, <<93760,93791,1,32>>,
      <<125184,125217,1,34>> }

\* the characters with the Case_Ignorable property
CaseIgnorableRanges ==
    {
      <<39,39>>, <<46,46>>, <<58,58>>, <<94,94>>, <<96,96>>,
      <<168,168>>, <<173,173>>, <<175,175>>, <<180,180>>, <<183,184>>,
      <<688,879>>, <<884,885>>, <<890,890>>, <<900,901>>, <<903,903>>,
      <<1155,1161>>, <<1369,1369>>, <<1375,1375>>, <<1425,1469>>, <<1471,1471>>,
      <<1473,1474>>, <<1476,1477>>, <<1479,1479>>, <<1524,1524>>, <<1536,1541>>,
      <<1552,1562>>, <<1564,1564>>, <<1600,1600>>, <<1611,1631>>, <<1648,1648>>,
      <<1750,1757>>, <<1759,1768>>, <<1770,1773>>, <<1807,1807>>, <<1809,1809>>,
      <<1840,1866>>, <<1958,1968>>, <<2027,2037>>, <<2042,2042>>, <<2045,2045>>,
      <<2070,2093>>, <<2137,2139>>, <<2184,2184>>, <<2192,2193>>, <<2200,2207>>,
      <<2249,2306>>, <<2362,2362>>, <<2364,2364>>, <<2369,2376>>, <<2381,2381>>,
      <<2385,2391>>, <<2402,2403>>, <<2417,2417>>, <<2433,2433>>, <<2492,2492>>,
      <<2497,2500>>, <<2509,2509>>, <<2530,2531>>, <<2558,2558>>, <<2561,2562>>,
      <<2620,2620>>, <<2625,2626>>, <<2631,2632>>, <<2635,2637>>, <<2641,2641>>,
      <<2672,2673>>, <<2677,2677>>, <<2689,2690>>, <<2748,2748>>, <<2753,2757>>,
      <<2759,2760>>, <<2765,2765>>, <<2786,2787>>, <<2810,2815>>, <<2817,2817>>,
      <<2876,2876>>, <<2879,2879>>, <<2881,2884>>, <<2893,2893>>, <<2901,2902>>,
      <<2914,2915>>, <<2946,2946>>, <<3008,3008>>, <<3021,3021>>, <<3072,3072>>,
      <<3076,3076>>, <<3132,3132>>, <<3134,3136>>, <<3142,3144>>, <<3146,3149>>,
      <<3157,3158>>, <<3170,3171>>, <<3201,3201>>, <<3260,3260>>, <<3263,3263>>,
      <<3270,3270>>, <<3276,3277>>, <<3298,3299>>, <<3328,3329>>, <<3387,3388>>,
      <<3393,3396>>, <<3405,3405>>, <<3426,3427>>, <<3457,3457>>, <<3530,3530>>,
      <<3538,3540>>, <<3542,3542>>, <<3633,3633>>, <<3636,3642>>, <<3654,3662>>,
      <<3761,3761>>, <<3764,3772>>, <<3782,3782>>, <<3784,3789>>, <<3864,3865>>,
      <<3893,3893>>, <<3895,3895>>, <<3897,3897>>, <<3953,3966>>, <<3968,3972>>,
      <<3974,3975>>, <<3981,3991>>, <<3993,4028>>, <<4038,4038>>, <<4141,4144>>,
      <<4146,4151>>, <<4153,4154>>, <<4157,4158>>, <<4184,4185>>, <<4190,4192>>,
      <<4209,4212>>, <<4226,4226>>, <<4229,4230>>, <<4237,4237>>, <<4253,4253>>,
      <<4348,4348>>, <<4957,4959>>, <<5906,5908>>, <<5938,5939>>, <<5970,5971>>,
      <<6002,6003>>, <<6068,6069>>, <<6071,6077>>, <<6086,6086>>, <<6089,6099>>,
      <<6103,6103>>, <<6109,6109>>, <<6155,6159>>, <<6211,6211>>, <<6277,6278>>,
      <<6313,6313>>, <<6432,6434>>, <<6439,6440>>, <<6450,6450>>, <<6457,6459>>,
      <<6679,6680>>, <<6683,6683>>, <<6742,6742>>, <<6744,6750>>, <<6752,6752>>,
      <<6754,6754>>, <<6757,6764>>, <<6771,6780>>, <<6783,6783>>, <<6823,6823>>,
      <<6832,6862>>, <<6912,6915>>, <<6964,6964>>, <<6966,6970>>, <<6972,6972>>,
      <<6978,6978>>, <<7019,7027>>, <<7040,7041>>, <<7074,7077>>, <<7080,7081>>,
      <<7083,7085>>, <<7142,7142>>, <<7144,7145>>, <<7149,7149>>, <<7151,7153>>,
      <<7212,7219>>, <<7222,7223>>, <<7288,7293>>, <<7376,7378>>, <<7380,7392>>,
      <<7394,7400>>, <<7405,7405>>, <<7412,7412>>, <<7416,7417>>, <<7468,7530>>,
      <<7544,7544>>, <<7579,7679>>, <<8125,8125>>, <<8127,8129>>, <<8141,8143>>,
      <<8157,8159>>, <<8173,8175>>, <<8189,8190>>, <<8203,8207>>, <<8216,8217>>,
      <<8228,8228>>, <<8231,8231>>, <<8234,8238>>, <<8288,8292>>, <<8294,8303>>,
      <<8305,8305>>, <<8319,8319>>, <<8336,8348>>, <<8400,8432>>, <<11388,11389>>,
      <<11503,11505>>, <<11631,11631>>, <<11647,11647>>, <<11744,11775>>, <<11823,11823>>,
      <<12293,12293>>, <<12330,12333>>, <<12337,12341>>, <<12347,12347>>, <<12441,12446>>,
      <<12540,12542>>, <<40981,40981>>, <<42232,42237>>, <<42508,42508>>, <<42607,42610>>,
      <<42612,42621>>, <<42623,42623>>, <<42652,42655>>, <<42736,42737>>, <<42752,42785>>,
      <<42864,42864>>, <<42888,42890>>, <<42994,42996>>, <<43000,43001>>, <<43010,43010>>,
      <<43014,43014>>, <<43019,43019>>, <<43045,43046>>, <<43052,43052>>, <<43204,43205>>,
      <<43232,43249>>, <<43263,43263>>, <<43302,43309>>, <<43335,43345>>, <<43392,43394>>,
      <<43443,43443>>, <<43446,43449>>, <<43452,43453>>, <<43471,43471>>, <<43493,43494>>,
      <<43561,43566>>, <<43569,43570>>, <<43573,43574>>, <<43587,43587>>, <<43596,43596>>,
      <<43632,43632>>, <<43644,43644>>, <<43696,43696>>, <<43698,43700>>, <<43703,43704>>,
      <<43710,43711>>, <<43713,43713>>, <<43741,43741>>, <<43756,43757>>, <<43763,43764>>,
      <<43766,43766>>, <<43867,43871>>, <<43881,43883>>, <<44005,44005>>, <<44008,44008>>,
      <<44013,44013>>, <<64286,64286>>, <<64434,64450>>, <<65024,65039>>, <<65043,65043>>,
      <<65056,65071>>, <<65106,65106>>, <<65109,65109>>, <<65279,65279>>, <<65287,65287>>,
      <<65294,65294>>, <<65306,65306>>, <<65342,65342>>, <<65344,65344>>, <<65392,65392>>,
      <<65438,65439>>, <<65507,65507>>, <<65529,65531>>, <<66045,66045>>, <<66272,66272>>,
      <<66422,66426>>, <<67456,67461>>, <<67463,67504>>, <<67506,67514>>, <<68097,68099>>,
      <<68101,68102>>, <<68108,68111>>, <<68152,68154>>, <<68159,68159>>, <<68325,68326>>,
      <<68900,68903>>, <<69291,69292>>, <<69446,69456>>, <<69506,69509>>, <<69633,69633>>,
      <<69688,69702>>, <<69744,69744>>, <<69747,69748>>, <<69759,69761>>, <<69811,69814>>,
      <<69817,69818>>, <<69821,69821>>, <<69826,69826>>, <<69837,69837>>, <<69888,69890>>,
      <<69927,69931>>, <<69933,69940>>, <<70003,70003>>, <<70016,70017>>, <<70070,70078>>,
      <<70089,70092>>, <<70095,70095>>, <<70191,70193>>, <<70196,70196>>, <<70198,70199>>,
      <<70206,70206>>, <<70367,70367>>, <<70371,70378>>, <<70400,70401>>, <<70459,70460>>,
      <<70464,70464>>, <<70502,70508>>, <<70512,70516>>, <<70712,70719>>, <<70722,70724>>,
      <<70726,70726>>, <<70750,70750>>, <<70835,70840>>, <<70842,70842>>, <<70847,70848>>,
      <<70850,70851>>, <<71090,71093>>, <<71100,71101>>, <<71103,71104>>, <<71132,71133>>,
      <<71219,71226>>, <<71229,71229>>, <<71231,71232>>, <<71339,71339>>, <<71341,71341>>,
      <<71344,71349>>, <<71351,71351>>, <<71453,71455>>, <<71458,71461>>, <<71463,71467>>,
      <<71727,71735>>, <<71737,71738>>, <<71995,71996>>, <<71998,71998>>, <<72003,72003>>,
      <<72148,72151>>, <<72154,72155>>, <<72160,72160>>, <<72193,72202>>, <<72243,72248>>,
      <<72251,72254>>, <<72263,72263>>, <<72273,72278>>, <<72281,72283>>, <<72330,72342>>,
      <<72344,72345>>, <<72752,72758>>, <<72760,72765>>, <<72767,72767>>, <<72850,72871>>,
      <<72874,72880>>, <<72882,72883>>, <<72885,72886>>, <<73009,73014>>, <<73018,73018>>,
      <<73020,73021>>, <<73023,73029>>, <<73031,73031>>, <<73104,73105>>, <<73109,73109>>,
      <<73111,73111>>, <<73459,73460>>, <<78896,78904>>, <<92912,92916>>, <<92976,92982>>,
      <<92992,92995>>, <<94031,94031>>, <<94095,94111>>, <<94176,94177>>, <<94179,94180>>,
      <<110576,110579>>, <<110581,110587>>, <<110589,110590>>, <<113821,113822>>, <<113824,113827>>,
      <<118528,118573>>, <<118576,118598>>, <<119143,119145>>, <<119155,119170>>, <<119173,119179>>,
      <<119210,119213>>, <<119362,119364>>, <<121344,121398>>, <<121403,121452>>, <<121461,121461>>,
      <<121476,121476>>, <<121499,121503>>, <<121505,121519>>, <<122880,122886>>, <<122888,122904>>,
      <<122907,122913>>, <<122915,122916>>, <<122918,122922>>, <<123184,123197>>, <<123566,123566>>,
      <<123628,123631>>, <<125136,125142>>, <<125252,125259>>, <<127995,127999>>, <<917505,917505>>,
      <<917536,917631>>, <<917760,917999>> }

\* the characters with the Cased property that are not Case_Ignorable
CasedRanges ==
    {
      <<65,90>>, <<97,122>>, <<170,170>>, <<181,181>>, <<186,186>>,
      <<192,214>>, <<216,246>>, <<248,442>>, <<444,447>>, <<452,659>>,
      <<661,687>>, <<880,883>>, <<886,887>>, <<891,893>>, <<895,895>>,
      <<902,902>>, <<904,906>>, <<908,908>>, <<910,929>>, <<931,1013>>,
      <<1015,1153>>, <<1162,1327>>, <<1329,1366>>, <<1376,1416>>, <<4256,4293>>,
      <<4295,4295>>, <<4301,4301>>, <<4304,4346>>, <<4349,4351>>, <<5024,5109>>,
      <<5112,5117>>, <<7296,7304>>, <<7312,7354>>, <<7357,7359>>, <<7424,7467>>,
      <<7531,7543>>, <<7545,7578>>, <<7680,7957>>, <<7960,7965>>, <<7968,8005>>,
      <<8008,8013>>, <<8016,8023>>, <<8025,8025>>, <<8027,8027>>, <<8029,8029>>,
      <<8031,8061>>, <<8064,8116>>, <<8118,8124>>, <<8126,8126>>, <<8130,8132>>,
      <<8134,8140>>, <<8144,8147>>, <<8150,8155>>, <<8160,8172>>, <<8178,8180>>,
      <<8182,8188>>, <<8450,8450>>, <<8455,8455>>, <<8458,8467>>, <<8469,8469>>,
      <<8473,8477>>, <<8484,8484>>, <<8486,8486>>, <<8488,8488>>, <<8490,8493>>,
      <<8495,8500>>, <<8505,8505>>, <<8508,8511>>, <<8517,8521>>, <<8526,8526>>,
      <<8544,8575>>, <<8579,8580>>, <<9398,9449>>, <<11264,11387>>, <<11390,11492>>,
      <<11499,11502>>, <<11506,11507>>, <<11520,11557>>, <<11559,11559>>, <<11565,11565>>,
      <<42560,42605>>, <<42624,42651>>, <<42786,42863>>, <<42865,42887>>, <<42891,42894>>,
      <<42896,42954>>, <<42960,42961>>, <<42963,42963>>, <<42965,42969>>, <<42997,42998>>,
      <<43002,43002>>, <<43824,43866>>, <<43872,43880>>, <<43888,43967>>, <<64256,64262>>,
      <<64275,64279>>, <<65313,65338>>, <<65345,65370>>, <<66560,66639>>, <<66736,66771>>,
      <<66776,66811>>, <<66928,66938>>, <<66940,66954>>, <<66956,66962>>, <<66964,66965>>,
      <<66967,66977>>, <<66979,66993>>, <<66995,67001>>, <<67003,67004>>, <<68736,68786>>,
      <<68800,68850>>, <<71840,71903>>, <<93760,93823>>, <<119808,119892>>, <<119894,119964>>,
      <<119966,119967>>, <<119970,119970>>, <<119973,119974>>, <<119977,119980>>, <<119982,119993>>,
      <<119995,119995>>, <<119997,120003>>, <<120005,120069>>, <<120071,120074>>, <<120077,120084>>,
      <<120086,120092>>, <<120094,120121>>, <<120123,120126>>, <<120128,120132>>, <<120134,120134>>,
      <<120138,120144>>, <<120146,120485>>, <<120488,120512>>, <<120514,120538>>, <<120540,120570>>,
      <<120572,120596>>, <<120598,120628>>, <<120630,120654>>, <<120656,120686>>, <<120688,120712>>,
      <<120714,120744>>, <<120746,120770>>, <<120772,120779>>, <<122624,122633>>, <<122635,122654>>,
      <<125184,125251>>, <<127280,127305>>, <<127312,127337>>, <<127344,127369>> }

InRanges(c, rs) == \E r \in rs : r[1] <= c /\ c <= r[2]
IsCaseIgnorable(c) == InRanges(c, CaseIgnorableRanges)
IsCased(c) == InRanges(c, CasedRanges)

\* U+03A3 at position i is in the Final_Sigma context when the nearest
\* character before it that is not case-ignorable is cased, and none after
\* it is: it then lowers to U+03C2, else to U+03C3
final_sigma(s, i) ==
    LET before == {j \in 1..(i - 1) : ~IsCaseIgnorable(s[j])}
        after == {j \in (i + 1)..Len(s) : ~IsCaseIgnorable(s[j])}
        Greatest(S) == CHOOSE j \in S : \A k \in S : k <= j
        Least(S) == CHOOSE j \in S : \A k \in S : j <= k
    IN  /\ before # {}
        /\ IsCased(s[Greatest(before)])
        /\ after = {} \/ ~IsCased(s[Least(after)])

\* the lower case of the character at position i of s: one character, or
\* two for U+0130
lower_char(s, i) ==
    LET c == s[i]
    IN  IF c < 128
        THEN IF c >= 65 /\ c <= 90 THEN <<c + 32>> ELSE <<c>>
        ELSE IF c = 931
        THEN IF final_sigma(s, i) THEN <<962>> ELSE <<963>>
        ELSE IF c = 304
        THEN <<105, 775>>
        ELSE IF \E r \in LowerRanges :
                    r[1] <= c /\ c <= r[2] /\ (c - r[1]) % r[3] = 0
        THEN <<c + (CHOOSE r \in LowerRanges :
                        r[1] <= c /\ c <= r[2] /\ (c - r[1]) % r[3] = 0)[4]>>
        ELSE <<c>>

\* str.lower()
RECURSIVE lower_from(_, _)
lower_from(s, i) ==
    IF i > Len(s) THEN <<>> ELSE lower_char(s, i) \o lower_from(s, i + 1)

lower(s) == lower_from(s, 1)

\* length of the whitespace run that starts s (the match of \s+ at position 1)
RECURSIVE ws_run(_)
ws_run(s) ==
    IF s # <<>> /\ Head(s) \in Whitespace THEN 1 + ws_run(Tail(s)) ELSE 0

\* a faulty variant of re_sub_ws below: only leading whitespace is removed
lstrip_ws(s) == SubSeq(s, ws_run(s) + 1, Len(s))

\* re.sub(r'\s+', '', s): scan left to right, drop every maximal run
RECURSIVE re_sub_ws(_)
re_sub_ws(s) ==
    IF s = <<>> THEN <<>>
    ELSE IF ws_run(s) > 0
         THEN re_sub_ws(SubSeq(s, ws_run(s) + 1, Len(s)))
         ELSE <<Head(s)>> \o re_sub_ws(Tail(s))

\* str.endswith(suffix)
endswith(s, suffix) ==
    /\ Len(s) >= Len(suffix)
    /\ SubSeq(s, Len(s) - Len(suffix) + 1, Len(s)) = suffix

\* `sub in s`
str_in(sub, s) ==
    \E i \in 1..(Len(s) - Len(sub) + 1) : SubSeq(s, i, i + Len(sub) - 1) = sub

\* '.png'
PNG == <<46, 112, 110, 103>>

\* ['screenshot', 'screen_shot', 'screenclip', 'capture', 'snip']
screenshot_indicators ==
    << <<115,99,114,101,101,110,115,104,111,116>>,
       <<115,99,114,101,101,110,95,115,104,111,116>>,
       <<115,99,114,101,101,110,99,108,105,112>>,
       <<99,97,112,116,117,114,101>>,
       <<115,110,105,112>> >>

\* app.py is_screenshot
is_screenshot(filename) ==
    LET clean_name == re_sub_ws(lower(filename))
    IN  IF ~endswith(clean_name, PNG)
        THEN FALSE
        ELSE \E k \in 1..Len(screenshot_indicators) :
                 str_in(screenshot_indicators[k], clean_name)

(***************************************************************************)
(* The tile / token estimator of utils/CountPngs.py.                       *)
(***************************************************************************)
BASE_TOKENS_PER_IMAGE == 2833
TILE_TOKENS == 5667
TILE_SIZE_PIXELS == 512

\* math.ceil(a / b) for integers a and b > 0. The true division is exact in
\* double precision for the magnitudes used here (|a| < 2^53, b = 2^9).
math_ceil_div(a, b) == -((-a) \div b)

\* a faulty variant of determine_tiles below: floor division, not ceil
determine_tiles_floor(width, height) ==
    (width \div TILE_SIZE_PIXELS) * (height \div TILE_SIZE_PIXELS)

determine_tiles(width, height) ==
    LET tiles_x == math_ceil_div(width, TILE_SIZE_PIXELS)
        tiles_y == math_ceil_div(height, TILE_SIZE_PIXELS)
    IN  tiles_x * tiles_y

calculate_tokens_per_image(tiles) == BASE_TOKENS_PER_IMAGE + (TILE_TOKENS * tiles)

Max(a, b) == IF a >= b THEN a ELSE b

\* body of the loop of estimate_costs_and_savings for one element `data`;
\* the float-valued cost fields are not part of the model
estimate_fields(data) ==
    LET original_tiles == determine_tiles(data.width_px, data.height_px)
        halved_width == Max(1, data.width_px \div 2)
        halved_height == Max(1, data.height_px \div 2)
        halved_tiles == determine_tiles(halved_width, halved_height)
    IN  [original_tiles |-> original_tiles,
         original_tokens |-> calculate_tokens_per_image(original_tiles),
         halved_width_px |-> halved_width,
         halved_height_px |-> halved_height,
         halved_tiles |-> halved_tiles,
         halved_tokens |-> calculate_tokens_per_image(halved_tiles)]

(***************************************************************************)
(* The directory and the two external capabilities of app.py.              *)
(***************************************************************************)
NoTag == "<no Description chunk>"

\* what get_image_content can return after .strip(): empty or not
Descriptions == {"", "a bar chart of sales"}

\* what get_new_name can return after .strip(): 'notes', 'snip1', 'chart'
GeneratedNames ==
    { <<110,111,116,101,115>>,
      <<115,110,105,112,49>>,
      <<99,104,97,114,116>> }

\* 'snip1.png', 'Screen Shot 2.PNG', 'notes.png'
F_snip1 == <<115,110,105,112,49>> \o PNG
F_shot2 == <<83,99,114,101,101,110,32,83,104,111,116,32,50,46,80,78,71>>
F_notes == <<110,111,116,101,115>> \o PNG

\* the directory before the first batch: two screenshots and one other PNG,
\* none of them carrying a Description chunk yet
InitialFolder ==
    (F_snip1 :> [pix |-> "P1", tag |-> NoTag, intact |-> TRUE]) @@
    (F_shot2 :> [pix |-> "P2", tag |-> NoTag, intact |-> TRUE]) @@
    (F_notes :> [pix |-> "P3", tag |-> NoTag, intact |-> TRUE])

\* os.listdir: the names of the directory in arbitrary order
ListDirs(dir) ==
    {l \in [1..Cardinality(DOMAIN dir) -> DOMAIN dir] :
        \A i, j \in DOMAIN l : i # j => l[i] # l[j]}

\* os.rename(src, dst) on POSIX: dst is replaced silently when it exists
os_rename(dir, src, dst) ==
    [n \in (DOMAIN dir \ {src}) \cup {dst} |->
        IF n = dst THEN dir[src] ELSE dir[n]]

Last(s) == s[Len(s)]

(***************************************************************************)
(* process_screenshots, statement by statement.  pc names the statement    *)
(* that runs next: "for" is the loop header (line 157), the others are     *)
(* the calls of lines 163-168.                                             *)
(***************************************************************************)
filename == listing[idx]

\* the next iteration of the for loop. The locals content and new_name are
\* dead once an iteration is over (the next one assigns them before reading
\* them); they are cleared here.
NextIteration ==
    /\ pc' = "for"
    /\ idx' = idx + 1
    /\ content' = ""
    /\ new_name' = <<>>

\* an exception leaves process_screenshots: main ends without write_to_csv
Abort ==
    /\ pc' = "aborted"
    /\ idx' = idx
    /\ content' = ""
    /\ new_name' = <<>>

\* except Exception (lines 177-178): the handler prints the file name and the
\* error, then the loop goes on. print raises when stdout is closed or cannot
\* encode the text; raised inside the handler, the exception is not caught.
ExceptHandler ==
    \E printed \in BOOLEAN :
        IF printed THEN NextIteration ELSE Abort

Ran(stage) == calls' = [calls EXCEPT ![idx] = Append(@, stage)]
Failed(stage) == failed' = [failed EXCEPT ![idx] = @ \cup {stage}]

\* main(): process_screenshots(folder_path) starts; os.listdir is evaluated
\* once. The program may be run again on the folder a previous run left.
StartBatch ==
    /\ UNCHANGED <<clsVars, estVars>>
    /\ pc \in {"idle", "written", "aborted"}
    /\ \E l \in ListDirs(folder) :
          /\ listing' = l
          /\ calls' = [i \in DOMAIN l |-> <<>>]
          /\ failed' = [i \in DOMAIN l |-> {}]
          /\ tagged' = [i \in DOMAIN l |-> NoTag]
    /\ idx' = 1
    /\ pc' = "for"
    /\ processed_files' = <<>>
    /\ folder0' = folder
    /\ csv_rows' = <<>>
    /\ UNCHANGED <<folder, content, new_name>>

\* line 158: a name that is not a screenshot is passed over
SkipFile ==
    /\ UNCHANGED <<clsVars, estVars>>
    /\ pc = "for"
    /\ idx <= Len(listing)
    /\ ~is_screenshot(filename)
    /\ idx' = idx + 1
    /\ UNCHANGED <<folder, listing, pc, content, new_name, processed_files,
                   csv_rows, calls, failed, tagged, folder0>>

\* lines 158-162: get_image_content(file_path) returns or raises
GetImageContent ==
    /\ UNCHANGED <<clsVars, estVars>>
    /\ pc = "for"
    /\ idx <= Len(listing)
    /\ is_screenshot(filename)
    /\ Ran("get_image_content")
    /\ tagged' = [tagged EXCEPT ![idx] =
                    IF filename \in DOMAIN folder THEN folder[filename].tag ELSE NoTag]
    /\ \E ok \in BOOLEAN :
          /\ ok => filename \in DOMAIN folder
          /\ IF ok
             THEN /\ \E c \in Descriptions : content' = c
                  /\ pc' = "get_new_name"
                  /\ UNCHANGED <<idx, failed>>
                  /\ UNCHANGED new_name
             ELSE /\ Failed("get_image_content")
                  /\ ExceptHandler
    /\ UNCHANGED <<folder, listing, processed_files, csv_rows, folder0>>

\* line 163: get_new_name(content) returns or raises
GetNewName ==
    /\ UNCHANGED <<clsVars, estVars>>
    /\ pc = "get_new_name"
    /\ Ran("get_new_name")
    /\ \E ok \in BOOLEAN :
          IF ok
          THEN /\ \E n \in GeneratedNames : new_name' = n
               /\ pc' = "add_metadata"
               /\ UNCHANGED <<idx, failed>>
               /\ UNCHANGED content
          ELSE /\ Failed("get_new_name")
               /\ ExceptHandler
    /\ UNCHANGED <<folder, listing, processed_files, csv_rows, tagged,
                   folder0>>

\* line 164, lines 111-122: add_metadata. print(content) at line 115 is
\* outside the try and may raise (file untouched). Inside the try Image.open
\* may fail (file untouched), img.save may fail after the file was opened for
\* writing (file truncated), or the file is rewritten with the Description
\* chunk; a failure inside the try is caught and printed (line 122), and the
\* function returns normally unless that print raises.
AddMetadata ==
    /\ UNCHANGED <<clsVars, estVars>>
    /\ pc = "add_metadata"
    /\ Ran("add_metadata")
    /\ \E outcome \in {"print_raised", "saved", "open_failed", "save_failed"} :
          CASE outcome = "print_raised" ->
                 /\ Failed("add_metadata")
                 /\ UNCHANGED folder
                 /\ ExceptHandler
            [] outcome = "saved" ->
                 /\ folder' = [folder EXCEPT ![filename].tag = content]
                 /\ pc' = "os_rename"
                 /\ UNCHANGED <<failed, idx, content, new_name>>
            [] outcome \in {"open_failed", "save_failed"} ->
                 /\ Failed("add_metadata")
                 /\ IF outcome = "open_failed"
                    THEN UNCHANGED folder
                    ELSE folder' = [folder EXCEPT ![filename].tag = NoTag,
                                                  ![filename].intact = FALSE]
                 /\ \E reported \in BOOLEAN :
                       IF reported
                       THEN /\ pc' = "os_rename"
                            /\ UNCHANGED <<idx, content, new_name>>
                       ELSE ExceptHandler
    /\ UNCHANGED <<listing, processed_files, csv_rows, tagged, folder0>>

new_file_name == new_name \o PNG

\* lines 165-166: os.rename(file_path, new_file_path) succeeds or raises
\* OSError (the FileExistsError of Windows for an existing target included)
OsRename ==
    /\ UNCHANGED <<clsVars, estVars>>
    /\ pc = "os_rename"
    /\ Ran("os_rename")
    /\ \E ok \in BOOLEAN :
          IF ok
          THEN /\ folder' = os_rename(folder, filename, new_file_name)
               /\ pc' = "append"
               /\ UNCHANGED <<idx, failed, content, new_name>>
          ELSE /\ Failed("os_rename")
               /\ ExceptHandler
               /\ UNCHANGED folder
    /\ UNCHANGED <<listing, processed_files, csv_rows, tagged, folder0>>

\* lines 168-176: the record of a renamed file is appended; the print of
\* line 176 is inside the try, so when it raises the handler runs
AppendRecord ==
    /\ UNCHANGED <<clsVars, estVars>>
    /\ pc = "append"
    /\ Ran("append")
    /\ processed_files' = Append(processed_files,
                                 [original_path |-> filename,
                                  new_name |-> new_file_name,
                                  description |-> content])
    /\ \E printed \in BOOLEAN :
          IF printed THEN NextIteration ELSE ExceptHandler
    /\ UNCHANGED <<folder, listing, csv_rows, failed, tagged, folder0>>

\* line 180: the loop is over, the list is returned
ReturnList ==
    /\ UNCHANGED <<clsVars, estVars>>
    /\ pc = "for"
    /\ idx > Len(listing)
    /\ pc' = "returned"
    /\ UNCHANGED <<folder, listing, idx, content, new_name, processed_files,
                   csv_rows, calls, failed, tagged, folder0>>

\* lines 185-197: one row per element of processed_files (the print of line
\* 197 comes after the file is closed and changes nothing of the state)
WriteToCsv ==
    /\ UNCHANGED <<clsVars, estVars>>
    /\ pc = "returned"
    /\ csv_rows' = processed_files
    /\ pc' = "written"
    /\ UNCHANGED <<folder, listing, idx, content, new_name, processed_files,
                   calls, failed, tagged, folder0>>

Init ==
    /\ folder = InitialFolder
    /\ listing = <<>>
    /\ idx = 1
    /\ pc = "idle"
    /\ content = ""
    /\ new_name = <<>>
    /\ processed_files = <<>>
    /\ csv_rows = <<>>
    /\ calls = <<>>
    /\ failed = <<>>
    /\ tagged = <<>>
    /\ folder0 = InitialFolder
    /\ cls_in = <<>>
    /\ cls_out = <<>>
    /\ est_in = [width_px |-> 1, height_px |-> 1]
    /\ est_out = <<>>

Next ==
    \/ StartBatch
    \/ SkipFile
    \/ GetImageContent
    \/ GetNewName
    \/ AddMetadata
    \/ OsRename
    \/ AppendRecord
    \/ ReturnList
    \/ WriteToCsv

Spec == Init /\ [][Next]_vars

IdlePipeline ==
    /\ folder = InitialFolder
    /\ listing = <<>>
    /\ idx = 1
    /\ pc = "idle"
    /\ content = ""
    /\ new_name = <<>>
    /\ processed_files = <<>>
    /\ csv_rows = <<>>
    /\ calls = <<>>
    /\ failed = <<>>
    /\ tagged = <<>>
    /\ folder0 = InitialFolder

(***************************************************************************)
(* is_screenshot applied to file names built from up to MaxChunks pieces.  *)
(***************************************************************************)
\* 'screen', 'Shot', 'clip', '_', space, tab, newline, U+202F, 'snip',
\* 'Capture', '.png', '.PNG', 'x', U+00C9, U+0130, U+03A3
Chunks ==
    << <<115,99,114,101,101,110>>,
       <<83,104,111,116>>,
       <<99,108,105,112>>,
       <<95>>,
       <<32>>,
       <<9>>,
       <<10>>,
       <<8239>>,
       <<115,110,105,112>>,
       <<67,97,112,116,117,114,101>>,
       PNG,
       <<46,80,78,71>>,
       <<120>>,
       <<201>>,
       <<304>>,
       <<931>> >>

RECURSIVE Flatten(_)
Flatten(cs) == IF cs = <<>> THEN <<>> ELSE Chunks[Head(cs)] \o Flatten(Tail(cs))

FilenameInputs ==
    {Flatten(cs) : cs \in UNION {[1..n -> 1..Len(Chunks)] : n \in 0..MaxChunks}}

InitClassifier ==
    /\ IdlePipeline
    /\ cls_in \in FilenameInputs
    /\ cls_out = <<>>
    /\ est_in = [width_px |-> 1, height_px |-> 1]
    /\ est_out = <<>>

IsScreenshotCall ==
    /\ cls_out = <<>>
    /\ cls_out' = <<is_screenshot(cls_in)>>
    /\ UNCHANGED <<cls_in, pipeVars, estVars>>

NextClassifier == IsScreenshotCall

SpecClassifier == InitClassifier /\ [][NextClassifier]_vars

(***************************************************************************)
(* estimate_costs_and_savings applied to one image of given dimensions.    *)
(***************************************************************************)
DimSet ==
    {k * TILE_SIZE_PIXELS + d : k \in 0..MaxTilesPerSide, d \in {-1, 0, 1}}
        \cup {100, 1080, 1920}

InitEstimator ==
    /\ IdlePipeline
    /\ cls_in = <<>>
    /\ cls_out = <<>>
    /\ est_in \in [width_px : DimSet, height_px : DimSet]
    /\ est_out = <<>>

EstimateCostsAndSavings ==
    /\ est_out = <<>>
    /\ est_out' = <<estimate_fields(est_in)>>
    /\ UNCHANGED <<est_in, pipeVars, clsVars>>

NextEstimator == EstimateCostsAndSavings

SpecEstimator == InitEstimator /\ [][NextEstimator]_vars

(***************************************************************************)
(* Properties.                                                             *)
(***************************************************************************)
Returned == pc \in {"returned", "written"}
Range(f) == {f[i] : i \in DOMAIN f}
Candidates == {i \in DOMAIN listing : is_screenshot(listing[i])}
StageOrder ==
    <<"get_image_content", "get_new_name", "add_metadata", "os_rename", "append">>
BeforeRename == {"get_image_content", "get_new_name", "add_metadata"}
IsPrefix(s, t) == Len(s) <= Len(t) /\ s = SubSeq(t, 1, Len(s))

\* C1: whenever a candidate is renamed, no other file of the folder loses its
\* name or has its contents replaced: the rename overwrites nothing.
C1_NoOverwrite ==
    [][(pc = "os_rename" /\ pc' = "append") =>
          \A n \in DOMAIN folder \ {filename} :
              n \in DOMAIN folder' /\ folder'[n] = folder[n]]_vars

\* C2: once the batch has returned, every candidate for which a stage before
\* the rename failed still exists under its original name with the contents
\* it had when the batch started.
C2_FailedFileUntouched ==
    Returned =>
        \A i \in Candidates :
            failed[i] \cap BeforeRename # {} =>
                /\ listing[i] \in DOMAIN folder
                /\ folder[listing[i]] = folder0[listing[i]]

\* C3: os.rename has been performed for a candidate only if its description
\* is non-empty and add_metadata did not fail for it.
C3_RenameNeedsMetadata ==
    pc = "append" => (content # "" /\ "add_metadata" \notin failed[idx])

\* C4: a candidate whose file carried, when the batch started and when it was
\* picked, a non-empty Description written by an earlier batch is skipped: no
\* content extraction, no name generation and no rename is run for it.
C4_TaggedFileSkipped ==
    \A i \in DOMAIN calls :
        (/\ folder0[listing[i]].tag \notin {NoTag, ""}
         /\ tagged[i] = folder0[listing[i]].tag)
            => calls[i] = <<>>

\* C5: the list returned by process_screenshots, and the CSV written from it,
\* hold one row per attempted candidate whatever its outcome.
C5_OneRowPerCandidate ==
    /\ Returned => Len(processed_files) = Cardinality(Candidates)
    /\ pc = "written" => Len(csv_rows) = Cardinality(Candidates)

\* C6: a failure of content extraction, name generation or rename for one
\* candidate never aborts the batch: process_screenshots is never left by an
\* exception at a candidate for which one of these calls failed; when the
\* batch returns the loop has passed the whole listing and only the names
\* that are no screenshots were left unattempted; every candidate the loop
\* has passed reached a terminal outcome (recorded, or failed in a call).
C6_FailureIsolation ==
    /\ pc = "aborted" =>
          failed[idx] \cap {"get_image_content", "get_new_name", "os_rename"} = {}
    /\ Returned =>
          /\ idx = Len(listing) + 1
          /\ \A i \in DOMAIN listing :
                calls[i] = <<>> => ~is_screenshot(listing[i])
    /\ \A i \in DOMAIN listing :
          ((i < idx \/ Returned) /\ calls[i] # <<>>) =>
              \/ Last(calls[i]) = "append"
              \/ Last(calls[i]) \in failed[i]

\* C10: the stages of a candidate run in the fixed order, none twice, and
\* once a stage has failed no later stage of that candidate runs.
C10_StagesInOrderStopOnFailure ==
    \A i \in DOMAIN calls :
        /\ IsPrefix(calls[i], StageOrder)
        /\ failed[i] # {} => Last(calls[i]) \in failed[i]

\* what the classifier is required to compute, stated on the name itself
CleanName(f) == SelectSeq(lower(f), LAMBDA c : c \notin Whitespace)
HasIndicator(s) ==
    \E i, j \in 1..Len(s) : SubSeq(s, i, j) \in Range(screenshot_indicators)
EndsInPng(s) == \E k \in 0..Len(s) : s = SubSeq(s, 1, k) \o PNG

\* C7: is_screenshot(filename) is true iff the lower-cased name with all
\* whitespace removed ends in ".png" and contains an indicator substring.
C7_IsScreenshotIff ==
    cls_out # <<>> =>
        (cls_out[1] <=> (EndsInPng(CleanName(cls_in)) /\ HasIndicator(CleanName(cls_in))))

\* a name with upper-case letters and whitespace after its first character
\* that is accepted, and would not be were the whitespace left in place
C7_Witness ==
    /\ cls_out = <<TRUE>>
    /\ cls_in # lower(cls_in)
    /\ \E i \in 2..Len(cls_in) : cls_in[i] \in Whitespace
    /\ ~(EndsInPng(lower(cls_in)) /\ HasIndicator(lower(cls_in)))

\* the least n with n * 512 >= x
CeilOf512(x) ==
    CHOOSE n \in 0..(MaxTilesPerSide + 4) : n * 512 >= x /\ (n - 1) * 512 < x

\* C8: for positive width and height the estimator yields
\* tiles = ceil(width/512) * ceil(height/512) and tokens = 2833 + 5667 * tiles;
\* (512, 512) gives 1 tile and 8500 tokens, (1920, 1080) 12 tiles and 70837.
C8_TilesAndTokens ==
    (est_out # <<>> /\ est_in.width_px > 0 /\ est_in.height_px > 0) =>
        /\ est_out[1].original_tiles =
               CeilOf512(est_in.width_px) * CeilOf512(est_in.height_px)
        /\ est_out[1].original_tokens = 2833 + 5667 * est_out[1].original_tiles
        /\ (est_in.width_px = 512 /\ est_in.height_px = 512) =>
               (est_out[1].original_tiles = 1 /\ est_out[1].original_tokens = 8500)
        /\ (est_in.width_px = 1920 /\ est_in.height_px = 1080) =>
               (est_out[1].original_tiles = 12 /\ est_out[1].original_tokens = 70837)

\* the estimate of a 1920 x 1080 image
C8_Witness ==
    /\ est_out # <<>>
    /\ est_in = [width_px |-> 1920, height_px |-> 1080]
    /\ est_out[1].original_tiles = 12

\* C9: for a width or height <= 0 the estimator ends in an InvalidDimension
\* error and yields no tile or token value.
C9_InvalidDimension ==
    (est_out # <<>> /\ (est_in.width_px <= 0 \/ est_in.height_px <= 0)) =>
        DOMAIN est_out[1] = {"error"}

====
